---- MODULE Spec2Model ----
(***************************************************************************)
(* VideoLivenessDetector (finger_liveness.py): one analyse() session.      *)
(*                                                                         *)
(* Units.  sample_seconds and the wall clock are counted in 1/TimeDen      *)
(* seconds, power_threshold in 1/ThrDen, spectral power in multiples of    *)
(* the additive constant 1e-8 (Eps).  A sample is the mean green value of  *)
(* the region of interest, or NaN when the sliced region is empty.         *)
(***************************************************************************)
EXTENDS Integers, Sequences, FiniteSets

VARIABLES
    roi,              \* self.roi, <<x, y, w, h>>
    sample_seconds,   \* self.sample_seconds, in 1/TimeDen seconds
    fps,              \* self.fps
    power_threshold,  \* self.power_threshold, in 1/ThrDen
    shape,            \* frame.shape[:2] of the frames the device delivers, <<h, w>>
    pc,               \* position in analyse(): start, loop, released, done, raised
    buffer,           \* the deque of samples
    elapsed,          \* time.time() - start, in 1/TimeDen seconds (saturating)
    lastKey,          \* value returned by the last cv2.waitKey(1)
    lastRoi,          \* ROI the last frame was sliced with
    estimate,         \* psd, band_power, total_power of lines 101-106
    verdict,          \* value returned by analyse(): none, true, false
    error,            \* exception raised by analyse(): none, RuntimeError, IndexError
    stopCause,        \* which break left the loop: none, eos, abort, timeout
    pushed,           \* history: the last MaxHist samples appended, in capture order
    nread,            \* history: successful cap.read() calls (saturating)
    npush,            \* history: buffer.append calls (saturating)
    nopen,            \* history: cv2.VideoCapture constructions
    nanalyse,         \* history: times the decision stage (lines 96-108) was entered
    nwelch            \* history: times detrend / welch / band power (lines 99-107) ran

config == <<roi, sample_seconds, fps, power_threshold, shape>>
vars == <<roi, sample_seconds, fps, power_threshold, shape, pc, buffer, elapsed,
          lastKey, lastRoi, estimate, verdict, error, stopCause, pushed, nread,
          npush, nopen, nanalyse, nwelch>>

\* ---------------------------------------------------------------- bounds
TimeDen == 2       \* clock resolution: ticks per second
ThrDen == 100      \* threshold resolution
MaxElapsed == 5    \* the clock saturates here (>= every sample_seconds drawn)
MaxDelta == 2      \* most clock ticks that pass during one loop iteration
MaxHist == 5       \* length of the history window (>= every cap drawn)
MaxCount == 5      \* the history counters saturate here

\* ------------------------------------------------------ program constants
NoKey == -1        \* cv2.waitKey returns -1 when no key was pressed
KeyMask == 256     \* & 0xFF keeps the value modulo 256
OrdQ == 113        \* ord('q')
MinSeconds == 2    \* "at least 2 seconds of data"
RoiDivisor == 3    \* central third
MaxSeg == 256      \* nperseg = min(256, len(signal))
BandLoNum == 3     \* 0.75 Hz = BandLoNum / BandLoDen
BandLoDen == 4
BandHi == 4        \* 4.0 Hz
Eps == 1           \* 1e-8, the unit of power
NaN == -1          \* float nan: mean of an empty slice, and whatever is computed from it

\* ------------------------------------------------------------ input sets
Rois == { <<0, 0, 0, 0>>, <<1, 0, 2, 2>>, <<0, 0, 0, 5>> }
Shapes == { <<480, 640>>, <<2, 2>>, <<4, 6>> }
SampleSeconds == { -1, 0, 3, 4 }
Fps == { 1, 2 }
PowerThresholds == { 0, 35 }
Greens == { 1, 2 }
Keys == { NoKey, OrdQ, OrdQ + KeyMask }
PowerVals == { 0, 2 }

Min(a, b) == IF a <= b THEN a ELSE b
Max(a, b) == IF a >= b THEN a ELSE b

RECURSIVE Sum(_)
Sum(s) == IF s = <<>> THEN 0 ELSE Head(s) + Sum(Tail(s))

\* The last k elements of s, in order.
LastK(s, k) == IF k <= 0 THEN <<>>
               ELSE SubSeq(s, Max(1, Len(s) - k + 1), Len(s))

\* ------------------------------------------------------------ _select_roi
\* all(self.roi) in place of any(self.roi)
AnyNonZero_All(r) == \A i \in 1..4 : r[i] # 0

AnyNonZero(r) == \E i \in 1..4 : r[i] # 0

\* x = w - size // 2 in place of (w - size) // 2
SelectRoi_Prec(cfgRoi, shp) ==
    IF AnyNonZero(cfgRoi) THEN cfgRoi
    ELSE LET h == shp[1]
             w == shp[2]
             size == Min(h, w) \div RoiDivisor
             x == w - (size \div 2)
             y == (h - size) \div 2
         IN  <<x, y, size, size>>

SelectRoi(cfgRoi, shp) ==
    IF AnyNonZero(cfgRoi) THEN cfgRoi
    ELSE LET h == shp[1]
             w == shp[2]
             size == Min(h, w) \div RoiDivisor
             x == (w - size) \div 2
             y == (h - size) \div 2
         IN  <<x, y, size, size>>

\* ------------------------------------------------- frame[y:y+h, x:x+w]
\* Python slice semantics on an axis of length n: a negative index counts
\* from the end, then both ends are clamped to 0..n.
SliceIndex(i, n) == IF i < 0 THEN Max(i + n, 0) ELSE Min(i, n)
SliceLen(start, stop, n) == Max(0, SliceIndex(stop, n) - SliceIndex(start, n))

\* roi_frame[:, :, 1].mean(): the mean green value g of the region, nan when
\* the region is empty.
AvgIntensity(r, shp, g) ==
    IF SliceLen(r[2], r[2] + r[4], shp[1]) = 0
       \/ SliceLen(r[1], r[1] + r[3], shp[2]) = 0
    THEN NaN ELSE g

\* -------------------------------------------------------- the deque bound
\* >= in place of >
OverCap_Geq(b) == Len(b) * TimeDen >= sample_seconds * fps

\* len(buffer) > self.sample_seconds * self.fps
OverCap(b) == Len(b) * TimeDen > sample_seconds * fps

\* while len(buffer) > cap: buffer.popleft()
\* popleft on an empty deque raises IndexError.
RECURSIVE Evict(_)
Evict(b) == IF OverCap(b)
            THEN IF b = <<>> THEN [buf |-> b, raised |-> TRUE]
                 ELSE Evict(Tail(b))
            ELSE [buf |-> b, raised |-> FALSE]

Saturate(n, max) == Min(n, max)

NoEstimate == [psd |-> <<>>, band_power |-> 0, total_power |-> 0]

TypeOK ==
    /\ roi \in Rois
    /\ sample_seconds \in SampleSeconds
    /\ fps \in Fps
    /\ power_threshold \in PowerThresholds
    /\ shape \in Shapes
    /\ pc \in {"start", "loop", "released", "done", "raised"}
    /\ verdict \in {"none", "true", "false"}
    /\ error \in {"none", "RuntimeError", "IndexError"}

Init ==
    /\ roi \in Rois
    /\ sample_seconds \in SampleSeconds
    /\ fps \in Fps
    /\ power_threshold \in PowerThresholds
    /\ shape \in Shapes
    /\ pc = "start"
    /\ buffer = <<>>
    /\ elapsed = 0
    /\ lastKey = NoKey
    /\ lastRoi = <<>>
    /\ estimate = NoEstimate
    /\ verdict = "none"
    /\ error = "none"
    /\ stopCause = "none"
    /\ pushed = <<>>
    /\ nread = 0
    /\ npush = 0
    /\ nopen = 0
    /\ nanalyse = 0
    /\ nwelch = 0

\* the failure is noted but the raise is missing
Open_NoRaise(opened) ==
    /\ pc = "start"
    /\ nopen' = nopen + 1
    /\ pc' = "loop"
    /\ error' = IF opened THEN error ELSE "RuntimeError"
    /\ UNCHANGED <<config, buffer, elapsed, lastKey, lastRoi, estimate, verdict,
                   stopCause, pushed, nread, npush, nanalyse, nwelch>>

\* cap = cv2.VideoCapture(...); if not cap.isOpened(): raise RuntimeError
Open(opened) ==
    /\ pc = "start"
    /\ nopen' = nopen + 1
    /\ IF opened
       THEN /\ pc' = "loop"
            /\ error' = error
       ELSE /\ pc' = "raised"
            /\ error' = "RuntimeError"
    /\ UNCHANGED <<config, buffer, elapsed, lastKey, lastRoi, estimate, verdict,
                   stopCause, pushed, nread, npush, nanalyse, nwelch>>

OpenDevice == \E opened \in BOOLEAN : Open(opened)

\* One pass through the body of "while True" (lines 70-91).  ret and g are
\* what cap.read() delivers, k what cv2.waitKey(1) returns, d the clock ticks
\* that pass during the iteration.
KeyAborts(k) == (k % KeyMask) = OrdQ

\* > in place of >=
TimeUp_Gt(now) == now > sample_seconds

TimeUp(now) == now >= sample_seconds

Tick(ret, g, k, d) ==
    LET now == Saturate(elapsed + d, MaxElapsed)
        r == SelectRoi(roi, shape)
        s == AvgIntensity(r, shape, g)
        ev == Evict(Append(buffer, s))
    IN
    /\ pc = "loop"
    /\ IF ~ret
       THEN /\ pc' = "released"
            /\ stopCause' = "eos"
            /\ elapsed' = now
            /\ UNCHANGED <<buffer, lastKey, lastRoi, error, pushed, nread, npush>>
       ELSE /\ lastRoi' = r
            /\ buffer' = ev.buf
            /\ pushed' = LastK(Append(pushed, s), MaxHist)
            /\ nread' = Saturate(nread + 1, MaxCount)
            /\ npush' = Saturate(npush + 1, MaxCount)
            /\ IF ev.raised
               THEN /\ pc' = "raised"
                    /\ error' = "IndexError"
                    /\ UNCHANGED <<lastKey, elapsed, stopCause>>
               ELSE /\ lastKey' = k
                    /\ elapsed' = now
                    /\ error' = error
                    /\ IF KeyAborts(k)
                       THEN pc' = "released" /\ stopCause' = "abort"
                       ELSE IF TimeUp(now)
                            THEN pc' = "released" /\ stopCause' = "timeout"
                            ELSE pc' = "loop" /\ stopCause' = stopCause
    /\ UNCHANGED <<config, estimate, verdict, nopen, nanalyse, nwelch>>

\* An iteration during which the clock stands still / moves on.
TickSameInstant == \E ret \in BOOLEAN, g \in Greens, k \in Keys : Tick(ret, g, k, 0)

TickClockAdvances ==
    \E ret \in BOOLEAN, g \in Greens, k \in Keys, d \in 1..MaxDelta : Tick(ret, g, k, d)

\* ------------------------------------------------- lines 96-108: decision
\* the test inverted
EnoughData_Inverted(b) == Len(b) < fps * MinSeconds

\* one second of data in place of two
EnoughData_OneSecond(b) == ~(Len(b) < fps)

EnoughData(b) == ~(Len(b) < fps * MinSeconds)

HasNaN(s) == \E i \in 1..Len(s) : s[i] = NaN

\* signal = np.array(buffer) - np.mean(buffer), scaled by len(buffer) to stay
\* in the integers; nan spreads to every element.
Detrend(b) ==
    IF HasNaN(b) THEN [i \in 1..Len(b) |-> NaN]
    ELSE [i \in 1..Len(b) |-> Len(b) * b[i] - Sum(b)]

NPerSeg(signal) == Min(MaxSeg, Len(signal))
NBins(signal) == NPerSeg(signal) \div 2 + 1

\* scipy.signal.welch: one power value per frequency bin k * fs / nperseg,
\* k = 0 .. nperseg // 2.  A nan signal gives nan power, an all-zero signal
\* zero power; any other signal gives some non-negative power per bin.
WelchOutcomes(signal) ==
    IF HasNaN(signal) THEN { [k \in 1..NBins(signal) |-> NaN] }
    ELSE IF \A i \in 1..Len(signal) : signal[i] = 0
         THEN { [k \in 1..NBins(signal) |-> 0] }
         ELSE [1..NBins(signal) -> PowerVals]

\* band_mask = (freqs >= 0.75) & (freqs <= 4.0), bin i holding frequency
\* (i - 1) * fs / nperseg
InBand(i, nperseg) ==
    /\ (i - 1) * fps * BandLoDen >= BandLoNum * nperseg
    /\ (i - 1) * fps <= BandHi * nperseg

RECURSIVE SumWhere(_, _, _)
SumWhere(psd, i, nperseg) ==
    IF i > Len(psd) THEN 0
    ELSE (IF InBand(i, nperseg) THEN psd[i] ELSE 0) + SumWhere(psd, i + 1, nperseg)

BandPower(psd, nperseg) ==
    IF \E i \in 1..Len(psd) : InBand(i, nperseg) /\ psd[i] = NaN THEN NaN
    ELSE SumWhere(psd, 1, nperseg)

\* the additive constant left out
TotalPower_NoEps(psd) == IF HasNaN(psd) THEN NaN ELSE Sum(psd)

TotalPower(psd) == IF HasNaN(psd) THEN NaN ELSE Sum(psd) + Eps

\* <= in place of >=
Decide_Leq(band_power, total_power, threshold) ==
    IF band_power = NaN \/ total_power = NaN THEN FALSE
    ELSE band_power * ThrDen <= threshold * total_power

\* ratio = band_power / total_power; return ratio >= self.power_threshold
\* (total_power > 0 whenever it is a number; a nan ratio compares false).
Decide(band_power, total_power, threshold) ==
    IF band_power = NaN \/ total_power = NaN THEN FALSE
    ELSE band_power * ThrDen >= threshold * total_power

Bool(b) == IF b THEN "true" ELSE "false"

\* the decision stage reachable from inside the loop
CaptureEnded_Early == pc \in {"loop", "released"}

\* The statements after the loop run once the loop has been left.
CaptureEnded == pc = "released"

\* psd is what welch returns for the detrended buffer.
Analyse(psd) ==
    /\ CaptureEnded
    /\ pc' = "done"
    /\ nanalyse' = nanalyse + 1
    /\ IF ~EnoughData(buffer)
       THEN /\ verdict' = "false"
            /\ UNCHANGED <<estimate, nwelch>>
       ELSE LET signal == Detrend(buffer)
                band == BandPower(psd, NPerSeg(signal))
                total == TotalPower(psd)
            IN  /\ estimate' = [psd |-> psd, band_power |-> band, total_power |-> total]
                /\ nwelch' = nwelch + 1
                /\ verdict' = Bool(Decide(band, total, power_threshold))
    /\ UNCHANGED <<config, buffer, elapsed, lastKey, lastRoi, error, stopCause,
                   pushed, nread, npush, nopen>>

Decision == \E psd \in WelchOutcomes(Detrend(buffer)) : Analyse(psd)

Next == OpenDevice \/ TickSameInstant \/ TickClockAdvances \/ Decision

Spec == Init /\ [][Next]_vars

\* Every frame read returns and the wall clock moves on.
\* The loop's course does not depend on the threshold, and on the ROI and the
\* frame shape only through the sample being a number or nan.
LoopInit ==
    /\ Init
    /\ roi = <<0, 0, 0, 0>>
    /\ shape \in { <<2, 2>>, <<4, 6>> }
    /\ power_threshold = 35

FairSpec ==
    /\ LoopInit /\ [][Next]_vars
    /\ WF_vars(OpenDevice) /\ WF_vars(TickClockAdvances) /\ WF_vars(Decision)

\* ================================================================ claims
\* floor(sample_seconds * fps), the number of samples the deque keeps
Cap == (sample_seconds * fps) \div TimeDen

ShortBuffer == Len(buffer) < fps * MinSeconds

\* C2: when the loop ends with len(buffer) < fps * 2, analyse returns false
\* whatever the buffer holds and whatever power_threshold is, the
\* detrend / welch / band-power steps never run, and nothing is raised.
C2_InsufficientData ==
    (stopCause # "none" /\ ShortBuffer) =>
        /\ error = "none"
        /\ nwelch = 0
        /\ estimate = NoEstimate
        /\ verdict # "true"
        /\ (pc = "done" => verdict = "false")

\* C2 case: a short, non-empty buffer was decided under the threshold that
\* accepts every ratio.
C2_Witness ==
    /\ pc = "done"
    /\ ShortBuffer
    /\ Len(buffer) >= 1
    /\ ~HasNaN(buffer)
    /\ power_threshold = 0

\* C3: when the frame source cannot be opened, analyse raises: no frame is
\* read, no sample is pushed, the open is not retried, and no verdict is
\* ever returned.
C3_OpenFailure ==
    /\ nopen <= 1
    /\ (error = "RuntimeError") =>
           /\ pc = "raised"
           /\ nread = 0
           /\ npush = 0
           /\ buffer = <<>>
           /\ nopen = 1
           /\ nanalyse = 0
           /\ verdict = "none"

\* C3 case: the open has failed.
C3_Witness == error = "RuntimeError" /\ nopen = 1

\* The stop conditions as the last completed tick saw them.
SawAbort == (lastKey % KeyMask) = OrdQ
SawTimeUp == elapsed >= sample_seconds

C4_StopAtFirst ==
    /\ (pc = "loop" /\ nread >= 1) => (~SawAbort /\ ~SawTimeUp)
    /\ (stopCause = "abort") => SawAbort
    /\ (stopCause = "timeout") => (SawTimeUp /\ ~SawAbort)
    /\ (pc \in {"released", "done"}) <=> (stopCause \in {"eos", "abort", "timeout"})

\* C4: the loop is left at the first tick whose read signals end-of-stream,
\* whose key poll sees the abort key, or whose time poll finds elapsed >=
\* sample_seconds (a tick that goes round again saw none of them); and when
\* every read returns and the clock moves on, the loop is eventually left.
C4_LoopStops == []C4_StopAtFirst /\ ((pc = "loop") ~> (pc # "loop"))

\* C4 case: several ticks went round and the time poll then ended the loop.
C4_Witness ==
    /\ stopCause = "timeout"
    /\ npush >= 3
    /\ lastKey = NoKey
    /\ elapsed = sample_seconds

C5_SinglePassState ==
    /\ npush <= nread
    /\ nanalyse <= 1
    /\ nwelch <= nanalyse
    /\ (pc = "done") <=> (nanalyse = 1)
    /\ (pc = "done") <=> (verdict \in {"true", "false"})
    /\ (pc = "done") => (stopCause # "none")
    /\ (pc = "loop") => (nanalyse = 0 /\ verdict = "none")

\* C5: a frame yields at most one sample; nothing is read or pushed once the
\* loop has been left; the decision stage runs at most once, only after the
\* loop has been left, and its run is what returns the one boolean.
C5_SinglePass ==
    /\ []C5_SinglePassState
    /\ [][pc # "loop" => (buffer' = buffer /\ npush' = npush /\ nread' = nread)]_vars
    /\ [][verdict # "none" => verdict' = verdict]_vars

\* C5 case: the spectral analysis ran on a buffer captured over several ticks.
C5_Witness ==
    /\ pc = "done"
    /\ nwelch = 1
    /\ npush >= 4
    /\ stopCause = "abort"

C6_SelectRoiState ==
    (lastRoi # <<>>) =>
        /\ (\E i \in 1..4 : roi[i] # 0) => (lastRoi = roi)
        /\ (\A i \in 1..4 : roi[i] = 0) =>
               LET side == Min(shape[1], shape[2]) \div 3
               IN  lastRoi = << (shape[2] - side) \div 2, (shape[1] - side) \div 2,
                                side, side >>
        /\ (shape = <<480, 640>> /\ roi = <<0, 0, 0, 0>>)
               => (lastRoi = <<240, 160, 160, 160>>)

\* C6: the ROI a frame is sliced with is the configured roi when any of its
\* fields is non-zero, and otherwise (x, y, s, s) with s = min(h, w) // 3,
\* x = (w - s) // 2, y = (h - s) // 2, which is (240, 160, 160, 160) for a
\* 480x640 frame; the configuration is never modified.
C6_SelectRoi == []C6_SelectRoiState /\ [][config' = config]_vars

\* C6 case: the default square of a 480x640 frame has been selected.
C6_Witness == lastRoi = <<240, 160, 160, 160>> /\ roi = <<0, 0, 0, 0>>

WithinFrame(r, shp) ==
    /\ 0 <= r[1]
    /\ 0 <= r[2]
    /\ r[1] + r[3] <= shp[2]
    /\ r[2] + r[4] <= shp[1]
    /\ r[3] > 0
    /\ r[4] > 0

\* C7 as stated: every ROI a frame is sliced with lies inside the frame and
\* has positive width and height, for every frame size and configuration.
C7_AnyRoiWithinFrame == (lastRoi # <<>>) => WithinFrame(lastRoi, shape)

\* C7 amended: the ROI selected when no roi is configured (all fields zero),
\* for a frame of at least 3 pixels in each dimension, lies inside the frame
\* and has positive width and height.
C7_DefaultRoiWithinFrame ==
    (lastRoi # <<>> /\ roi = <<0, 0, 0, 0>> /\ Min(shape[1], shape[2]) >= RoiDivisor)
        => WithinFrame(lastRoi, shape)

\* C7 case: the default square of a small frame has been selected.
C7_Witness == lastRoi # <<>> /\ roi = <<0, 0, 0, 0>> /\ shape = <<4, 6>>

ThresholdGrid == { -10, 0, 20, 35, 50, 100, 150 }

\* C8: for the spectral estimate of a session, the verdict is the comparison
\* of band_power / total_power with power_threshold, and the comparison is
\* monotone: true at a threshold t2 implies true at every t1 <= t2.
C8_ThresholdMonotone ==
    (pc = "done" /\ nwelch = 1) =>
        /\ (verdict = "true") <=>
               (/\ estimate.band_power # NaN
                /\ estimate.total_power # NaN
                /\ estimate.band_power * ThrDen >= power_threshold * estimate.total_power)
        /\ \A t1, t2 \in ThresholdGrid :
               (t1 <= t2 /\ Decide(estimate.band_power, estimate.total_power, t2))
                   => Decide(estimate.band_power, estimate.total_power, t1)

\* C8 case: a live verdict that a higher threshold turns into a negative one.
C8_Witness ==
    /\ pc = "done"
    /\ nwelch = 1
    /\ verdict = "true"
    /\ power_threshold > 0
    /\ \E t \in ThresholdGrid :
           t > power_threshold
           /\ ~Decide(estimate.band_power, estimate.total_power, t)

\* A buffer of one repeated number.
Flat(b) == ~HasNaN(b) /\ \A i, j \in 1..Len(b) : b[i] = b[j]

FlatAnalysed == pc = "done" /\ nwelch = 1 /\ Flat(buffer)

\* C9 as stated: an all-constant buffer of sufficient length yields false
\* with no error: every power value is zero and total_power is 1e-8.
C9_FlatIsSpoof ==
    FlatAnalysed =>
        /\ error = "none"
        /\ \A i \in 1..Len(estimate.psd) : estimate.psd[i] = 0
        /\ estimate.total_power = Eps
        /\ verdict = "false"

\* C9 amended: an all-constant buffer of sufficient length raises nothing,
\* every power value is zero, total_power is 1e-8 and the ratio is 0; the
\* verdict is false exactly when power_threshold > 0.
C9_FlatRatioZero ==
    FlatAnalysed =>
        /\ error = "none"
        /\ \A i \in 1..Len(estimate.psd) : estimate.psd[i] = 0
        /\ estimate.band_power = 0
        /\ estimate.total_power = Eps
        /\ (verdict = "false") <=> (power_threshold > 0)

\* C9 case: a flat buffer went through the spectral steps under a positive
\* threshold.
C9_Witness == FlatAnalysed /\ power_threshold > 0 /\ Len(buffer) >= 2

SessionOver == pc \in {"done", "raised"} /\ error # "RuntimeError"

\* C10 as stated: a session with sample_seconds < 2 and fps > 0 returns
\* false on every run that opens the device.
C10_ShortSessionSpoof ==
    (sample_seconds < MinSeconds * TimeDen /\ fps > 0 /\ SessionOver)
        => (pc = "done" /\ verdict = "false")

\* C10 amended: a session with 0 <= sample_seconds < 2 and fps > 0 returns
\* false on every run that opens the device, without running the spectral
\* steps.
C10_ShortNonNegativeSessionSpoof ==
    (0 <= sample_seconds /\ sample_seconds < MinSeconds * TimeDen /\ fps > 0
     /\ SessionOver)
        => (pc = "done" /\ verdict = "false" /\ nwelch = 0)

\* C10 case: a 1.5-second session filled its window and was decided under
\* the threshold that accepts every ratio.
C10_Witness ==
    /\ pc = "done"
    /\ sample_seconds > 0
    /\ sample_seconds < MinSeconds * TimeDen
    /\ Len(buffer) = Cap
    /\ Len(buffer) >= 2
    /\ npush > Len(buffer)
    /\ power_threshold = 0

====
